---- MODULE Spec2Model ----
(***************************************************************************)
(* Model of homebridge-simple-router-status (src/src/platform.ts).         *)
(*                                                                         *)
(* The platform restores cached accessories (configureAccessory), runs     *)
(* discoverDevices once when the host emits didFinishLaunching, and from   *)
(* then on reacts to interval timers, to host reads of the                 *)
(* WiFiSatelliteStatus characteristic and to the settlement of the         *)
(* promises returned by getRouterStatus.                                   *)
(***************************************************************************)
EXTENDS Integers, Sequences, FiniteSets, TLC

\* ------------------------------------------------------------------------
\* Bounds of the model
\* ------------------------------------------------------------------------
MaxRouters == 2          \* longest config.routers list
MaxCached == 2           \* most accessories the host restores from its cache
MaxInFlight == 2         \* unresolved probes counted per timer (saturating)
MaxReads == 1            \* unresolved on-demand reads counted per accessory (saturating)
MaxStatusCode == 999     \* largest status code a response carries

\* ------------------------------------------------------------------------
\* Values
\* ------------------------------------------------------------------------
EmptyUrl == ""
Urls == {"192.168.1.1", "https://router.lan", EmptyUrl}

CONNECTED == "CONNECTED"
NOT_CONNECTED == "NOT_CONNECTED"
UNKNOWN == "UNKNOWN"     \* value of the characteristic before any write

NoHandler == "no-handler"

\* an optional field of the configuration that is not set
Absent == "<absent>"

\* a string as the sequence of its characters
NoChars == <<>>

\* RouterConfig.pollingInterval: absent, or a string
NoInterval == [present |-> FALSE, chars |-> NoChars]
IntervalString(cs) == [present |-> TRUE, chars |-> cs]
PollingIntervals ==
    {NoInterval, IntervalString(<<"0">>), IntervalString(<<"-", "5">>),
     IntervalString(<<"a", "b", "c">>)}

\* RouterConfig (the fields the reconciliation and the polling read)
RouterConfig ==
    [homepageUrl : Urls,
     manufacturer : {Absent, "Acme"},
     model : {Absent, "AX-1"},
     serial : {Absent, "SN-1"},
     firmwareRevision : {Absent, "2.0.1"},
     pollingInterval : PollingIntervals]

\* a router entry that sets only its address
PlainRouter(u) ==
    [homepageUrl |-> u, manufacturer |-> Absent, model |-> Absent,
     serial |-> Absent, firmwareRevision |-> Absent,
     pollingInterval |-> NoInterval]

\* the characteristics of the AccessoryInformation service
Info(ma, mo, se, fw) ==
    [manufacturer |-> ma, model |-> mo, serial |-> se, firmwareRevision |-> fw]

\* what the host stored for a cached accessory in an earlier run, and what a
\* new PlatformAccessory carries before the platform sets anything
StoredInfos ==
    {Info("Old-Manufacturer", "Old-Model", "Old-Serial", "0.9.0"),
     Info("Default-Manufacturer", "Default-Model", "Default-Serial", "1.0.0")}
FreshInfo == Info("hap-manufacturer", "hap-model", "hap-serial", "hap-firmware")

\* 'homepageUrl_' + router.homepageUrl
IdentityKey(homepageUrl) == "homepageUrl_" \o homepageUrl

\* api.hap.uuid.generate(seed): deterministic, one UUID per seed
Generate(seed) == <<"uuid", seed>>

UuidOf(homepageUrl) == Generate(IdentityKey(homepageUrl))

Min(a, b) == IF a < b THEN a ELSE b

\* ------------------------------------------------------------------------
\* getRouterStatus
\* ------------------------------------------------------------------------
\* What the transport does with one GET: an 'error' event, or a response
\* whose statusCode is a number or undefined.
ErrorOutcome == [kind |-> "error", hasStatus |-> FALSE, statusCode |-> 0]
Response(code) == [kind |-> "response", hasStatus |-> TRUE, statusCode |-> code]
ResponseNoStatus == [kind |-> "response", hasStatus |-> FALSE, statusCode |-> 0]

StatusCodes == 0..MaxStatusCode
Outcomes == {ErrorOutcome, ResponseNoStatus} \cup {Response(c) : c \in StatusCodes}

\* new URL(...) throws for an address without a host
ParseUrlThrows(inputUrl) == inputUrl = EmptyUrl

Fulfilled(v) == [state |-> "fulfilled", value |-> v]
Rejected == [state |-> "rejected", value |-> FALSE]
NotSettled == [state |-> "none", value |-> FALSE]

\* variant: the upper limit of the error range is not tested
IsErrorStatus_NoUpperLimit(res) ==
    /\ res.hasStatus
    /\ res.statusCode # 0
    /\ res.statusCode >= 400

\* res.statusCode && res.statusCode >= 400 && res.statusCode < 600
IsErrorStatus(res) ==
    /\ res.hasStatus
    /\ res.statusCode # 0
    /\ res.statusCode >= 400
    /\ res.statusCode < 600

\* the response callback: resolve(false) for an error status, else resolve(true)
ResponseCallback(res) == Fulfilled(~IsErrorStatus(res))

\* The settled state of the promise getRouterStatus(inputUrl) returns when the
\* transport answers with outcome o.  A throw of parseUrl inside the executor
\* rejects the promise before any request is made.
GetRouterStatus(inputUrl, o) ==
    IF ParseUrlThrows(inputUrl) THEN Rejected
    ELSE IF o.kind = "error" THEN Rejected
    ELSE ResponseCallback(o)

\* status ? CONNECTED : NOT_CONNECTED
StatusValue(status) == IF status THEN CONNECTED ELSE NOT_CONNECTED

\* ------------------------------------------------------------------------
\* effectivePollingInterval
\* ------------------------------------------------------------------------
DefaultPollingInterval == 5000

DigitChars == <<"0", "1", "2", "3", "4", "5", "6", "7", "8", "9">>
IsDigit(c) == \E k \in DOMAIN DigitChars : DigitChars[k] = c
DigitValue(c) == (CHOOSE k \in DOMAIN DigitChars : DigitChars[k] = c) - 1
IsWhiteSpace(c) == c = " "

NaN == [nan |-> TRUE, value |-> 0]
Number(v) == [nan |-> FALSE, value |-> v]

\* parseInt step 1: leading white space is dropped
RECURSIVE TrimStart(_)
TrimStart(cs) ==
    IF cs # <<>> /\ IsWhiteSpace(Head(cs)) THEN TrimStart(Tail(cs)) ELSE cs

\* parseInt step 3: the digits up to the first character that is no digit
\* of the radix; what follows them is ignored, no digit at all is NaN
RECURSIVE LeadingDigits(_, _, _)
LeadingDigits(cs, value, seen) ==
    IF cs # <<>> /\ IsDigit(Head(cs))
    THEN LeadingDigits(Tail(cs), 10 * value + DigitValue(Head(cs)), TRUE)
    ELSE IF seen THEN Number(value) ELSE NaN

\* parseInt(string, 10)
ParseInt(cs) ==
    LET t == TrimStart(cs)
        signed == t # <<>> /\ Head(t) \in {"+", "-"}
        digits == LeadingDigits(IF signed THEN Tail(t) ELSE t, 0, FALSE)
    IN  IF digits.nan THEN NaN
        ELSE IF signed /\ Head(t) = "-" THEN Number(0 - digits.value)
        ELSE digits

\* variant: the default is chosen with || instead of isNaN
EffectivePollingInterval_OrDefault(pollingInterval) ==
    LET parsed == ParseInt(IF pollingInterval.present THEN pollingInterval.chars
                           ELSE <<"N", "a", "N">>)
    IN  IF parsed.nan \/ parsed.value = 0 THEN DefaultPollingInterval
        ELSE parsed.value

\* parseInt(router.pollingInterval ?? 'NaN', 10), 5000 when that is NaN
EffectivePollingInterval(pollingInterval) ==
    LET parsed == ParseInt(IF pollingInterval.present THEN pollingInterval.chars
                           ELSE <<"N", "a", "N">>)
    IN  IF parsed.nan THEN DefaultPollingInterval ELSE parsed.value

\* ------------------------------------------------------------------------
\* parseUrl
\* ------------------------------------------------------------------------
MaxPort == 65535

UpperChars ==
    <<"A", "B", "C", "D", "E", "F", "G", "H", "I", "J", "K", "L", "M", "N", "O", "P", "Q", "R", "S", "T", "U", "V", "W", "X", "Y", "Z">>
LowerChars ==
    <<"a", "b", "c", "d", "e", "f", "g", "h", "i", "j", "k", "l", "m", "n", "o", "p", "q", "r", "s", "t", "u", "v", "w", "x", "y", "z">>

\* one character, ASCII lower case
Lower(c) ==
    IF \E k \in DOMAIN UpperChars : UpperChars[k] = c
    THEN LowerChars[CHOOSE k \in DOMAIN UpperChars : UpperChars[k] = c]
    ELSE c
LowerAll(cs) == [k \in DOMAIN cs |-> Lower(cs[k])]

Drop(cs, n) == SubSeq(cs, n + 1, Len(cs))
StartsWith(cs, p) == Len(cs) >= Len(p) /\ SubSeq(cs, 1, Len(p)) = p

\* index of the first character of cs that is in set, Len(cs) + 1 if none
FirstOf(cs, set) ==
    LET hits == {k \in DOMAIN cs : cs[k] \in set}
    IN  IF hits = {} THEN Len(cs) + 1
        ELSE CHOOSE k \in hits : \A j \in hits : k <= j

RECURSIVE DecimalValue(_, _)
DecimalValue(cs, value) ==
    IF cs = <<>> THEN value
    ELSE DecimalValue(Tail(cs), 10 * value + DigitValue(Head(cs)))

RECURSIVE DecimalDigits(_)
DecimalDigits(n) ==
    IF n < 10 THEN <<DigitChars[n + 1]>>
    ELSE Append(DecimalDigits(n \div 10), DigitChars[(n % 10) + 1])

\* variant: the test is case sensitive
TestSchemeRegex_CaseSensitive(inputUrl) ==
    \/ StartsWith(inputUrl, <<"h", "t", "t", "p", ":", "/", "/">>)
    \/ StartsWith(inputUrl, <<"h", "t", "t", "p", "s", ":", "/", "/">>)

\* /^https?:\/\//i.test(inputUrl): "http", an optional "s", "://", whatever
\* the case of the letters
TestSchemeRegex(inputUrl) ==
    LET l == LowerAll(inputUrl)
        afterHttp == Drop(l, 4)
        afterS == IF afterHttp # <<>> /\ Head(afterHttp) = "s"
                  THEN Tail(afterHttp) ELSE afterHttp
    IN  /\ StartsWith(l, <<"h", "t", "t", "p">>)
        /\ StartsWith(afterS, <<":", "/", "/">>)

FailedUrl ==
    [done |-> TRUE, failed |-> TRUE, protocol |-> NoChars, hostname |-> NoChars,
     port |-> NoChars, pathname |-> NoChars]

DefaultPort(protocol) == IF protocol = <<"h", "t", "t", "p", "s", ":">> THEN 443 ELSE 80

\* leading and trailing spaces are stripped before a URL is parsed
RECURSIVE TrimEnd(_)
TrimEnd(cs) ==
    IF cs # <<>> /\ IsWhiteSpace(cs[Len(cs)])
    THEN TrimEnd(SubSeq(cs, 1, Len(cs) - 1)) ELSE cs

RECURSIVE SkipSlashes(_)
SkipSlashes(cs) ==
    IF cs # <<>> /\ Head(cs) \in {"/", "\\"} THEN SkipSlashes(Tail(cs)) ELSE cs

\* the characters a host may not contain (those the inputs can produce)
ForbiddenHostChars == {" ", ":", "/", "\\"}

\* new URL(href) for an href whose scheme is http or https: the scheme in
\* lower case, the slashes after it skipped, the authority up to the next
\* slash split at its first colon into host and port; it throws for an empty
\* host, for a port that is no number or exceeds 65535; a port that is the
\* default of the scheme is dropped, an empty path is "/".
NewURL(href) ==
    LET h == TrimEnd(TrimStart(href))
        colon == FirstOf(h, {":"})
        protocol == Append(LowerAll(SubSeq(h, 1, colon - 1)), ":")
        rest == SkipSlashes(Drop(h, colon))
        slash == FirstOf(rest, {"/", "\\"})
        authority == SubSeq(rest, 1, slash - 1)
        path == Drop(rest, slash - 1)
        split == FirstOf(authority, {":"})
        host == SubSeq(authority, 1, split - 1)
        portChars == Drop(authority, split)
        badPort == \/ \E k \in DOMAIN portChars : ~IsDigit(portChars[k])
                   \/ DecimalValue(portChars, 0) > MaxPort
        badHost == \/ host = <<>>
                   \/ \E k \in DOMAIN host : host[k] \in ForbiddenHostChars
    IN  IF badHost \/ badPort THEN FailedUrl
        ELSE [done |-> TRUE, failed |-> FALSE,
              protocol |-> protocol,
              hostname |-> LowerAll(host),
              port |-> IF portChars = <<>>
                          \/ DecimalValue(portChars, 0) = DefaultPort(protocol)
                       THEN NoChars
                       ELSE DecimalDigits(DecimalValue(portChars, 0)),
              pathname |-> IF path = <<>> THEN <<"/">> ELSE path]

\* url.port = value: the setter, too, drops the default port of the scheme
SetPort(url, value) ==
    [url EXCEPT !.port = IF DecimalValue(value, 0) = DefaultPort(url.protocol)
                         THEN NoChars
                         ELSE DecimalDigits(DecimalValue(value, 0))]

\* parseUrl(inputUrl)
ParseUrl(inputUrl) ==
    LET url == IF ~TestSchemeRegex(inputUrl)
               THEN NewURL(<<"h", "t", "t", "p", ":", "/", "/">> \o inputUrl)
               ELSE NewURL(inputUrl)
    IN  IF url.failed THEN url
        ELSE IF url.port = NoChars
        THEN IF url.protocol = <<"h", "t", "t", "p", ":">> THEN SetPort(url, <<"8", "0">>)
             ELSE IF url.protocol = <<"h", "t", "t", "p", "s", ":">> THEN SetPort(url, <<"4", "4", "3">>)
             ELSE url
        ELSE url

\* ------------------------------------------------------------------------
\* State
\* ------------------------------------------------------------------------
VARIABLES
    routers,       \* this.config.routers || []
    cache,         \* UUIDs of the accessories the host has still to restore
    launched,      \* didFinishLaunching has been emitted (discoverDevices ran)
    objects,       \* every PlatformAccessory object, indexed by its handle
    accessories,   \* this.accessories: the handles configureAccessory pushed
    status,        \* value of WiFiSatelliteStatus of each accessory
    onGet,         \* homepageUrl captured by the onGet handler of each accessory
    reads,         \* unresolved on-demand reads of each accessory
    timers,        \* the intervals setInterval created, in creation order
    registered,    \* accessories the host currently publishes
    hostCalls,     \* register / unregister calls received by the host, in order
    lastEvent,     \* the handler that ran last and what it did
    infoWrites,    \* AccessoryInformation values set by discoverDevices, in order
    probeUrl,      \* input of a single getRouterStatus call
    probeOutcome,  \* what the transport does for that call
    probeSettled,  \* the settled state of the promise of that call
    intervalArg,   \* router.pollingInterval of a single period computation
    intervalResult,\* the effectivePollingInterval computed from it
    urlArg,        \* input of a single parseUrl call
    urlResult      \* the URL that call returns, or its failure

vars == <<routers, cache, launched, objects, accessories, status, onGet, reads,
          timers, registered, hostCalls, lastEvent, infoWrites, probeUrl,
          probeOutcome, probeSettled, intervalArg, intervalResult, urlArg,
          urlResult>>

platformVars == <<routers, cache, launched, objects, accessories, status, onGet,
                  reads, timers, registered, hostCalls, lastEvent, infoWrites>>

probeVars == <<probeUrl, probeOutcome, probeSettled>>
intervalVars == <<intervalArg, intervalResult>>
urlVars == <<urlArg, urlResult>>

\* the variables of the single-call specifications
callVars == <<probeVars, intervalVars, urlVars>>

Handles == DOMAIN objects
TimerIds == DOMAIN timers

NoEvent ==
    [op |-> "none", timer |-> 0, acc |-> 0, settled |-> NotSettled,
     out |-> "none", threw |-> FALSE]

Event(op, timer, acc, settled, out, threw) ==
    [op |-> op, timer |-> timer, acc |-> acc, settled |-> settled,
     out |-> out, threw |-> threw]

SeqsUpTo(S, n) == UNION {[1..k -> S] : k \in 0..n}

\* sequences without repetition over S, of length at most n
DistinctSeqs(S, n) ==
    {q \in SeqsUpTo(S, n) : \A a, b \in DOMAIN q : a # b => q[a] # q[b]}

\* the transport outcomes the polling model draws from
PollOutcomes == {ErrorOutcome, Response(200), Response(404)}

\* ------------------------------------------------------------------------
\* Initial state: the platform object after its constructor returned
\* ------------------------------------------------------------------------
\* the accessories the host persisted: one per UUID, each with stored values
CachedAccessory(uuid, info) == [UUID |-> uuid, info |-> info]
Caches(infos) ==
    {q \in SeqsUpTo({CachedAccessory(UuidOf(u), i) : u \in Urls, i \in infos},
                    MaxCached) :
        \A a, b \in DOMAIN q : a # b => q[a].UUID # q[b].UUID}

OldInfo == Info("Old-Manufacturer", "Old-Model", "Old-Serial", "0.9.0")

PlatformIdle ==
    /\ launched = FALSE
    /\ objects = <<>>
    /\ accessories = <<>>
    /\ status = <<>>
    /\ onGet = <<>>
    /\ reads = <<>>
    /\ timers = <<>>
    /\ registered = {}
    /\ hostCalls = <<>>
    /\ lastEvent = NoEvent
    /\ infoWrites = <<>>

PlatformInit ==
    /\ routers \in SeqsUpTo({PlainRouter(u) : u \in Urls}, MaxRouters)
    /\ cache \in Caches({OldInfo})
    /\ PlatformIdle

ProbeIdle ==
    /\ probeUrl = EmptyUrl
    /\ probeOutcome = ErrorOutcome
    /\ probeSettled = NotSettled

NoResult == [done |-> FALSE]

IntervalIdle ==
    /\ intervalArg = NoInterval
    /\ intervalResult = NoResult

UrlIdle ==
    /\ urlArg = NoChars
    /\ urlResult = NoResult

Init == PlatformInit /\ ProbeIdle /\ IntervalIdle /\ UrlIdle

\* ------------------------------------------------------------------------
\* configureAccessory: the host hands over one cached accessory
\* ------------------------------------------------------------------------
ConfigureAccessory ==
    /\ ~launched
    /\ cache # <<>>
    /\ LET h == Len(objects) + 1
       IN  /\ objects' = Append(objects, Head(cache))
           /\ status' = Append(status, UNKNOWN)
           /\ onGet' = Append(onGet, NoHandler)
           /\ reads' = Append(reads, 0)
           /\ accessories' = Append(accessories, h)
           /\ registered' = registered \cup {h}
           /\ lastEvent' = Event("configureAccessory", 0, h, NotSettled, "none", FALSE)
    /\ cache' = Tail(cache)
    /\ UNCHANGED <<routers, launched, timers, hostCalls, infoWrites, callVars>>

\* ------------------------------------------------------------------------
\* discoverDevices
\* ------------------------------------------------------------------------
\* variant: the lookup never matches a cached accessory
FindAccessory_NeverFinds(accs, objs, uuid) == 0

\* this.accessories.find((accessory) => accessory.UUID === uuid); 0 is undefined
FindAccessory(accs, objs, uuid) ==
    LET hits == {k \in DOMAIN accs : objs[accs[k]].UUID = uuid}
    IN  IF hits = {} THEN 0
        ELSE accs[CHOOSE k \in hits : \A j \in hits : k <= j]

\* variant: the UUID is generated from the address without the key prefix
IsConfigured_NoPrefix(rs, uuid) ==
    \E k \in DOMAIN rs : Generate(rs[k].homepageUrl) = uuid

\* some router of the configuration has this UUID
IsConfigured(rs, uuid) == \E k \in DOMAIN rs : UuidOf(rs[k].homepageUrl) = uuid

RegisterCall(hs) == [op |-> "register", accessories |-> hs]
UnregisterCall(hs) == [op |-> "unregister", accessories |-> hs]

\* variant: the registration calls are collected newest first
RegisterIfNew_Prepends(st, existing, acc) ==
    IF existing = 0
    THEN [st EXCEPT !.hostCalls = <<[op |-> "register", accessories |-> <<acc>>]>> \o @,
                    !.registered = @ \cup {acc}]
    ELSE st

\* variant: a restored accessory is registered again
RegisterIfNew_Always(st, existing, acc) ==
    [st EXCEPT !.hostCalls = Append(@, RegisterCall(<<acc>>)),
               !.registered = @ \cup {acc}]

\* if (!existingAccessory) registerPlatformAccessories(..., [accessory])
RegisterIfNew(st, existing, acc) ==
    IF existing = 0
    THEN [st EXCEPT !.hostCalls = Append(@, RegisterCall(<<acc>>)),
                    !.registered = @ \cup {acc}]
    ELSE st

\* value ?? fallback
OrElse(value, fallback) == IF value = Absent THEN fallback ELSE value

\* variant: a value the accessory already carries is kept
ConfiguredInfo_KeepsStored(router, stored) ==
    IF stored = FreshInfo
    THEN Info(OrElse(router.manufacturer, "Default-Manufacturer"),
              OrElse(router.model, "Default-Model"),
              OrElse(router.serial, "Default-Serial"),
              OrElse(router.firmwareRevision, "1.0.0"))
    ELSE stored

\* The values the four setCharacteristic calls give the AccessoryInformation
\* service of an accessory that carried the values stored.
ConfiguredInfo(router, stored) ==
    Info(OrElse(router.manufacturer, "Default-Manufacturer"),
         OrElse(router.model, "Default-Model"),
         OrElse(router.serial, "Default-Serial"),
         OrElse(router.firmwareRevision, "1.0.0"))

\* variant: the poll runs once at once, before the interval is started
NewTimer_PollsAtOnce(router, acc) ==
    [homepageUrl |-> router.homepageUrl, acc |-> acc, inflight |-> 1,
     interval |-> EffectivePollingInterval(router.pollingInterval)]

\* setInterval(callback, effectivePollingInterval): the callback runs only
\* when the timer fires, never inside the call
NewTimer(router, acc) ==
    [homepageUrl |-> router.homepageUrl, acc |-> acc, inflight |-> 0,
     interval |-> EffectivePollingInterval(router.pollingInterval)]

\* One iteration of the loop over routers: look the accessory up or create
\* it, set its information, install the onGet handler, start the interval,
\* register a new one.
RouterStep(st, router) ==
    LET uuid == UuidOf(router.homepageUrl)
        existing == FindAccessory(accessories, st.objects, uuid)
        acc == IF existing # 0 THEN existing ELSE Len(st.objects) + 1
        made == IF existing # 0 THEN st
                ELSE [st EXCEPT !.objects = Append(@, CachedAccessory(uuid, FreshInfo)),
                                !.status = Append(@, UNKNOWN),
                                !.onGet = Append(@, NoHandler),
                                !.reads = Append(@, 0)]
        info == ConfiguredInfo(router, made.objects[acc].info)
        wired == [made EXCEPT
                    !.objects[acc].info = info,
                    !.infoWrites = Append(@, [acc |-> acc, info |-> info]),
                    !.onGet[acc] = router.homepageUrl,
                    !.timers = Append(@, NewTimer(router, acc))]
    IN  RegisterIfNew(wired, existing, acc)

\* variant: the test of the removal loop is inverted
RemoveStep_Inverted(st, h) ==
    IF IsConfigured(routers, st.objects[h].UUID)
    THEN [st EXCEPT !.hostCalls = Append(@, UnregisterCall(<<h>>)),
                    !.registered = @ \ {h}]
    ELSE st

\* One iteration of the loop over this.accessories: unregister an accessory
\* no router of the configuration matches.
RemoveStep(st, h) ==
    IF ~IsConfigured(routers, st.objects[h].UUID)
    THEN [st EXCEPT !.hostCalls = Append(@, UnregisterCall(<<h>>)),
                    !.registered = @ \ {h}]
    ELSE st

RECURSIVE RouterLoop(_, _)
RouterLoop(st, k) ==
    IF k > Len(routers) THEN st
    ELSE RouterLoop(RouterStep(st, routers[k]), k + 1)

RECURSIVE RemoveLoop(_, _)
RemoveLoop(st, k) ==
    IF k > Len(accessories) THEN st
    ELSE RemoveLoop(RemoveStep(st, accessories[k]), k + 1)

\* the two loops of discoverDevices, run on the current state
Discovered ==
    LET st0 == [objects |-> objects, status |-> status, onGet |-> onGet,
                reads |-> reads, timers |-> timers,
                hostCalls |-> hostCalls, registered |-> registered,
                infoWrites |-> infoWrites]
    IN  RemoveLoop(RouterLoop(st0, 1), 1)

\* variant: the pass keeps this.accessories in step with the host (pushes
\* what it registered, drops what it unregistered)
DiscoverDevices_UpdatesList ==
    /\ ~launched
    /\ cache = <<>>
    /\ launched' = TRUE
    /\ LET st == Discovered
       IN  /\ objects' = st.objects
           /\ infoWrites' = st.infoWrites
           /\ status' = st.status
           /\ onGet' = st.onGet
           /\ reads' = st.reads
           /\ timers' = st.timers
           /\ hostCalls' = st.hostCalls
           /\ registered' = st.registered
           /\ accessories' =
                  SelectSeq([h \in 1..Len(st.objects) |-> h],
                            LAMBDA h : h \in st.registered)
    /\ lastEvent' = Event("discoverDevices", 0, 0, NotSettled, "none", FALSE)
    /\ UNCHANGED <<routers, cache, callVars>>

\* The didFinishLaunching callback: the host has restored its whole cache,
\* and discoverDevices runs to completion in one turn of the event loop.
DiscoverDevices ==
    /\ ~launched
    /\ cache = <<>>
    /\ launched' = TRUE
    /\ LET st == Discovered
       IN  /\ objects' = st.objects
           /\ infoWrites' = st.infoWrites
           /\ status' = st.status
           /\ onGet' = st.onGet
           /\ reads' = st.reads
           /\ timers' = st.timers
           /\ hostCalls' = st.hostCalls
           /\ registered' = st.registered
    /\ lastEvent' = Event("discoverDevices", 0, 0, NotSettled, "none", FALSE)
    /\ UNCHANGED <<routers, cache, accessories, callVars>>

\* ------------------------------------------------------------------------
\* The interval callback (periodic push path)
\* ------------------------------------------------------------------------
\* variant: a timer is re-armed only once its own probe has settled
TimerFires_AwaitsOwn(i) == i \in TimerIds /\ timers[i].inflight = 0

\* variant: the devices are polled one after the other, each probe awaited
TimerFires_AwaitsAll(i) ==
    i \in TimerIds /\ \A j \in TimerIds : timers[j].inflight = 0

\* setInterval keeps firing a timer nothing clears, whatever its earlier
\* callbacks are still awaiting
TimerFires(i) == i \in TimerIds

\* the count of unresolved probes saturates at the bound: cap stands for
\* "cap or more"
Started(n, cap) == Min(n + 1, cap)
Finished(n, cap) == IF n = cap THEN {cap, cap - 1} ELSE {n - 1}

\* The timer fires: the callback calls getRouterStatus and suspends at await.
Tick(i) ==
    /\ TimerFires(i)
    /\ timers' = [timers EXCEPT ![i].inflight = Started(@, MaxInFlight)]
    /\ lastEvent' = Event("tick", i, timers[i].acc, NotSettled, "none", FALSE)
    /\ UNCHANGED <<routers, cache, launched, objects, accessories, status, onGet,
                   reads, registered, hostCalls, infoWrites, callVars>>

\* variant: only a connected result is pushed
PushedValue_OnlyConnected(settled) ==
    IF settled.state = "fulfilled" /\ settled.value THEN CONNECTED ELSE "none"

\* What the callback passes to updateValue once the promise has settled:
\* the status value when fulfilled; the catch block only logs.
PushedValue(settled) ==
    IF settled.state = "fulfilled" THEN StatusValue(settled.value) ELSE "none"

\* variant: every callback sees the service of the last loop iteration
PushTarget_LastIteration(i) == timers[Len(timers)].acc

\* the accessory whose wiFiSatelliteService the callback of timer i captured
PushTarget(i) == timers[i].acc

\* A probe of timer i settles and the callback resumes after its await.
TickSettled(i, o) ==
    /\ i \in TimerIds
    /\ timers[i].inflight > 0
    /\ LET settled == GetRouterStatus(timers[i].homepageUrl, o)
           out == PushedValue(settled)
           acc == timers[i].acc
       IN  /\ status' = IF out = "none" THEN status
                        ELSE [status EXCEPT ![PushTarget(i)] = out]
           /\ lastEvent' = Event("tickSettled", i, acc, settled, out, FALSE)
    /\ \E n \in Finished(timers[i].inflight, MaxInFlight) :
           timers' = [timers EXCEPT ![i].inflight = n]
    /\ UNCHANGED <<routers, cache, launched, objects, accessories, onGet, reads,
                   registered, hostCalls, infoWrites, callVars>>

\* ------------------------------------------------------------------------
\* The onGet handler (on-demand read path)
\* ------------------------------------------------------------------------
\* The host reads WiFiSatelliteStatus of a published accessory: the handler
\* calls getRouterStatus and suspends at await.
OnGet(h) ==
    /\ launched
    /\ h \in Handles
    /\ h \in registered
    /\ onGet[h] # NoHandler
    /\ reads' = [reads EXCEPT ![h] = Started(@, MaxReads)]
    /\ lastEvent' = Event("onGet", 0, h, NotSettled, "none", FALSE)
    /\ UNCHANGED <<routers, cache, launched, objects, accessories, status, onGet,
                   timers, registered, hostCalls, infoWrites, callVars>>

\* variant: the handler has no catch block
OnGetReturn_Rethrows(settled) ==
    IF settled.state = "fulfilled"
    THEN [value |-> StatusValue(settled.value), threw |-> FALSE]
    ELSE [value |-> "none", threw |-> TRUE]

\* What the handler hands back to the host: the status value when the promise
\* is fulfilled, NOT_CONNECTED from the catch block when it is rejected.
OnGetReturn(settled) ==
    IF settled.state = "fulfilled"
    THEN [value |-> StatusValue(settled.value), threw |-> FALSE]
    ELSE [value |-> NOT_CONNECTED, threw |-> FALSE]

\* An on-demand probe of accessory h settles and the handler returns.
OnGetSettled(h, o) ==
    /\ h \in Handles
    /\ reads[h] > 0
    /\ LET settled == GetRouterStatus(onGet[h], o)
           ret == OnGetReturn(settled)
       IN  lastEvent' = Event("onGetSettled", 0, h, settled, ret.value, ret.threw)
    /\ \E n \in Finished(reads[h], MaxReads) : reads' = [reads EXCEPT ![h] = n]
    /\ UNCHANGED <<routers, cache, launched, objects, accessories, status, onGet,
                   timers, registered, hostCalls, infoWrites, callVars>>

\* ------------------------------------------------------------------------
\* Specifications
\* ------------------------------------------------------------------------
Next ==
    \/ ConfigureAccessory
    \/ DiscoverDevices
    \/ \E i \in 1..MaxRouters : Tick(i)
    \/ \E i \in 1..MaxRouters, o \in PollOutcomes : TickSettled(i, o)
    \/ \E h \in Handles : OnGet(h)
    \/ \E h \in Handles, o \in PollOutcomes : OnGetSettled(h, o)

Spec == Init /\ [][Next]_vars

\* The event loop runs the callback of every interval that is due.
FairSpec == Spec /\ \A i \in 1..MaxRouters : WF_vars(Tick(i))

\* The reconciliation alone, for router entries that set any of their
\* optional information fields and caches that stored any values.
InfoRouters == {r \in RouterConfig : r.pollingInterval = NoInterval}

ConfigInit ==
    /\ routers \in SeqsUpTo(InfoRouters, MaxRouters)
    /\ cache \in Caches(StoredInfos)
    /\ PlatformIdle
    /\ ProbeIdle
    /\ IntervalIdle
    /\ UrlIdle

ConfigNext ==
    \/ ConfigureAccessory
    \/ DiscoverDevices

ConfigSpec == ConfigInit /\ [][ConfigNext]_vars

\* The reconciliation and the periodic push path, for router entries that
\* set a polling interval.
TimedRouters ==
    {r \in RouterConfig :
        /\ r.manufacturer = Absent
        /\ r.model = Absent
        /\ r.serial = Absent
        /\ r.firmwareRevision = Absent
        /\ r.pollingInterval \in {NoInterval, IntervalString(<<"0">>),
                                  IntervalString(<<"-", "5">>)}}

TimerInit ==
    /\ routers \in SeqsUpTo(TimedRouters, MaxRouters)
    /\ cache \in Caches({OldInfo})
    /\ PlatformIdle
    /\ ProbeIdle
    /\ IntervalIdle
    /\ UrlIdle

TimerNext ==
    \/ ConfigureAccessory
    \/ DiscoverDevices
    \/ \E i \in 1..MaxRouters : Tick(i)
    \/ \E i \in 1..MaxRouters, o \in PollOutcomes : TickSettled(i, o)

TimerSpec == TimerInit /\ [][TimerNext]_vars

\* One computation of effectivePollingInterval, for an absent
\* pollingInterval and for every short string over IntervalChars.
MaxIntervalLen == 3
IntervalChars == {"0", "1", "5", "-", "+", " ", "a", "."}
IntervalInputs ==
    {NoInterval} \cup {IntervalString(cs) : cs \in SeqsUpTo(IntervalChars, MaxIntervalLen)}

IntervalInit ==
    /\ routers = <<>>
    /\ cache = <<>>
    /\ PlatformIdle
    /\ ProbeIdle
    /\ UrlIdle
    /\ intervalArg \in IntervalInputs
    /\ intervalResult = NoResult

ComputeInterval ==
    /\ ~intervalResult.done
    /\ intervalResult' = [done |-> TRUE, value |-> EffectivePollingInterval(intervalArg)]
    /\ UNCHANGED <<intervalArg, platformVars, probeVars, urlVars>>

IntervalNext == ComputeInterval

IntervalSpec == IntervalInit /\ [][IntervalNext]_vars

\* One call of parseUrl, for every address made of a scheme part, a host, a
\* port part and a path.
SchemeParts ==
    {NoChars,
     <<"h", "t", "t", "p", ":", "/", "/">>,
     <<"h", "t", "t", "p", "s", ":", "/", "/">>,
     <<"H", "T", "T", "P", ":", "/", "/">>,
     <<"H", "t", "T", "p", "S", ":", "/", "/">>,
     <<"h", "t", "t", "p", ":", "/">>,
     <<"h", "t", "t", "p", "s", ":">>,
     <<"f", "t", "p", ":", "/", "/">>}
HostParts ==
    {NoChars,
     <<"r", "o", "u", "t", "e", "r">>,
     <<"L", "a", "n", ".", "B", "o", "x">>,
     <<"1", "9", "2", ".", "1", "6", "8", ".", "1", ".", "1">>}
PortParts ==
    {NoChars,
     <<":">>,
     <<":", "8", "0">>,
     <<":", "4", "4", "3">>,
     <<":", "8", "0", "8", "0">>,
     <<":", "0", "0", "8", "0">>,
     <<":", "9", "9", "9", "9", "9">>,
     <<":", "8", "x">>}
PathParts ==
    {NoChars,
     <<"/">>,
     <<"/", "s", "t", "a", "t", "u", "s">>,
     <<" ">>}
UrlInputs ==
    {a \o b \o c \o d : a \in SchemeParts, b \in HostParts, c \in PortParts,
                        d \in PathParts}

UrlInit ==
    /\ routers = <<>>
    /\ cache = <<>>
    /\ PlatformIdle
    /\ ProbeIdle
    /\ IntervalIdle
    /\ urlArg \in UrlInputs
    /\ urlResult = NoResult

CallParseUrl ==
    /\ ~urlResult.done
    /\ urlResult' = ParseUrl(urlArg)
    /\ UNCHANGED <<urlArg, platformVars, probeVars, intervalVars>>

UrlNext == CallParseUrl

UrlSpec == UrlInit /\ [][UrlNext]_vars

\* One call of getRouterStatus, for every address and transport outcome.
ProbeInit ==
    /\ routers = <<>>
    /\ cache = <<>>
    /\ PlatformIdle
    /\ IntervalIdle
    /\ UrlIdle
    /\ probeUrl \in Urls
    /\ probeOutcome \in Outcomes
    /\ probeSettled = NotSettled

Probe ==
    /\ probeSettled = NotSettled
    /\ probeSettled' = GetRouterStatus(probeUrl, probeOutcome)
    /\ UNCHANGED <<probeUrl, probeOutcome, platformVars, intervalVars, urlVars>>

ProbeNext == Probe

ProbeSpec == ProbeInit /\ [][ProbeNext]_vars

\* ------------------------------------------------------------------------
\* Derived sets used by the properties
\* ------------------------------------------------------------------------
Range(q) == {q[k] : k \in DOMAIN q}

ConfiguredUuids == {UuidOf(routers[k].homepageUrl) : k \in DOMAIN routers}
KnownUuids == {objects[h].UUID : h \in Range(accessories)}

CallsOf(op) == {k \in DOMAIN hostCalls : hostCalls[k].op = op}
HandlesIn(op) == UNION {Range(hostCalls[k].accessories) : k \in CallsOf(op)}
UuidsIn(op) == {objects[h].UUID : h \in HandlesIn(op)}

\* accessories discoverDevices created / found in this.accessories
AddedHandles == Handles \ Range(accessories)
KeptHandles == {h \in Range(accessories) : objects[h].UUID \in ConfiguredUuids}
RemovedHandles == {h \in Range(accessories) : objects[h].UUID \notin ConfiguredUuids}

TimersOf(uuid) == {i \in TimerIds : UuidOf(timers[i].homepageUrl) = uuid}
ObjectsOf(uuid) == {h \in Handles : objects[h].UUID = uuid}

IsTickOf(i) == lastEvent.op = "tick" /\ lastEvent.timer = i
IsPush == lastEvent.op = "tickSettled" /\ lastEvent.out # "none"

\* ------------------------------------------------------------------------
\* C1: after discoverDevices every configured identity key has exactly one
\* accessory object and at most one interval timer.
\* ------------------------------------------------------------------------
C1_OneEntryOneTimerPerKey ==
    launched =>
        \A uuid \in ConfiguredUuids :
            /\ Cardinality(ObjectsOf(uuid)) = 1
            /\ Cardinality(TimersOf(uuid)) <= 1

\* ------------------------------------------------------------------------
\* C2: after a tick whose probe was rejected, the status of the device is
\* NOT_CONNECTED.
\* ------------------------------------------------------------------------
C2_FailedTickReportsNotConnected ==
    (lastEvent.op = "tickSettled" /\ lastEvent.settled.state = "rejected")
        => status[lastEvent.acc] = NOT_CONNECTED

\* ------------------------------------------------------------------------
\* C3: under fair scheduling of the intervals, every timer that exists fires
\* again and again, whatever its probes did and however many of them are
\* still unresolved.
\* ------------------------------------------------------------------------
C3_TicksForever ==
    \A i \in 1..MaxRouters : [](i \in TimerIds => <>IsTickOf(i))

\* a probe of a device was rejected while another probe of that device,
\* started by a later or earlier tick, is still unresolved
C3_Witness ==
    /\ lastEvent.op = "tickSettled"
    /\ lastEvent.settled.state = "rejected"
    /\ timers[lastEvent.timer].inflight > 0

\* ------------------------------------------------------------------------
\* C4: an on-demand read returns CONNECTED or NOT_CONNECTED as the probe
\* classified the response, NOT_CONNECTED when the probe was rejected, and
\* never throws to the host.
\* ------------------------------------------------------------------------
C4_OnDemandReadReturnsStatus ==
    lastEvent.op = "onGetSettled" =>
        /\ ~lastEvent.threw
        /\ lastEvent.out \in {CONNECTED, NOT_CONNECTED}
        /\ lastEvent.settled.state = "rejected" => lastEvent.out = NOT_CONNECTED
        /\ lastEvent.settled = Fulfilled(TRUE) => lastEvent.out = CONNECTED
        /\ lastEvent.settled = Fulfilled(FALSE) => lastEvent.out = NOT_CONNECTED

C4_Witness ==
    /\ lastEvent.op = "onGetSettled"
    /\ lastEvent.settled.state = "rejected"
    /\ lastEvent.out = NOT_CONNECTED

\* ------------------------------------------------------------------------
\* C5 (as claimed): a code in 100..399 gives Connected, a code in 400..599
\* gives NotConnected, no response rejects, and the result is Connected only
\* if the code is in 100..399.
\* ------------------------------------------------------------------------
Requested == probeSettled # NotSettled /\ ~ParseUrlThrows(probeUrl)
CodeIn(lo, hi) ==
    /\ probeOutcome.kind = "response"
    /\ probeOutcome.hasStatus
    /\ probeOutcome.statusCode >= lo
    /\ probeOutcome.statusCode <= hi

C5_ConnectedOnlyFrom100To399 ==
    Requested =>
        /\ CodeIn(100, 399) => probeSettled = Fulfilled(TRUE)
        /\ CodeIn(400, 599) => probeSettled = Fulfilled(FALSE)
        /\ probeOutcome.kind = "error" => probeSettled = Rejected
        /\ probeSettled = Fulfilled(TRUE) => CodeIn(100, 399)

\* C5 (amended): a code in 400..599 gives NotConnected, every other response
\* (any other code, or no status code at all) gives Connected, and no
\* response rejects.
C5_NotConnectedExactlyFrom400To599 ==
    Requested =>
        /\ CodeIn(100, 399) => probeSettled = Fulfilled(TRUE)
        /\ CodeIn(400, 599) => probeSettled = Fulfilled(FALSE)
        /\ probeOutcome.kind = "error" <=> probeSettled = Rejected
        /\ probeSettled = Fulfilled(TRUE) <=>
               (probeOutcome.kind = "response" /\ ~CodeIn(400, 599))

C5_Witness ==
    /\ Requested
    /\ CodeIn(600, 600)
    /\ probeSettled = Fulfilled(TRUE)

\* ------------------------------------------------------------------------
\* C6: one pass keeps exactly the keys configured and known (on the cached
\* accessory, without registering it), adds exactly the keys configured and
\* not known (on a new accessory, registered), removes exactly the keys known
\* and not configured (unregistered); nothing is both added and removed.
\* ------------------------------------------------------------------------
C6_KeepAddRemove ==
    launched =>
        /\ {objects[h].UUID : h \in KeptHandles} = ConfiguredUuids \cap KnownUuids
        /\ \A i \in TimerIds :
               UuidOf(timers[i].homepageUrl) \in KnownUuids
                   => /\ timers[i].acc \in KeptHandles
                      /\ objects[timers[i].acc].UUID = UuidOf(timers[i].homepageUrl)
        /\ KeptHandles \cap HandlesIn("register") = {}
        /\ {objects[h].UUID : h \in AddedHandles} = ConfiguredUuids \ KnownUuids
        /\ HandlesIn("register") = AddedHandles
        /\ UuidsIn("register") = ConfiguredUuids \ KnownUuids
        /\ HandlesIn("unregister") = RemovedHandles
        /\ UuidsIn("unregister") = KnownUuids \ ConfiguredUuids
        /\ registered = KeptHandles \cup AddedHandles
        /\ UuidsIn("register") \cap UuidsIn("unregister") = {}
        /\ UuidsIn("register") \cap {objects[h].UUID : h \in KeptHandles} = {}
        /\ UuidsIn("unregister") \cap {objects[h].UUID : h \in KeptHandles} = {}

C6_Witness ==
    /\ launched
    /\ KeptHandles # {}
    /\ AddedHandles # {}
    /\ RemovedHandles # {}

C8_NoTickForRemovedKey ==
    \A h \in HandlesIn("unregister") :
        /\ TimersOf(objects[h].UUID) = {}
        /\ \A i \in TimerIds : timers[i].acc # h
        /\ lastEvent.op \in {"tick", "tickSettled"} => lastEvent.acc # h

C8_Witness ==
    /\ HandlesIn("unregister") # {}
    /\ lastEvent.op = "tick"
    /\ timers[lastEvent.timer].inflight = MaxInFlight

\* ------------------------------------------------------------------------
\* C9: no status write targets an accessory that has been unregistered.
\* ------------------------------------------------------------------------
C9_NoWriteToUnregistered ==
    /\ IsPush => /\ lastEvent.acc \notin HandlesIn("unregister")
                 /\ lastEvent.acc \in registered
    /\ \A h \in HandlesIn("unregister") : status[h] = UNKNOWN

C9_Witness ==
    /\ HandlesIn("unregister") # {}
    /\ IsPush
    /\ status[lastEvent.acc] = lastEvent.out

\* ------------------------------------------------------------------------
\* C10: while a device has unresolved probes, every other device's timer
\* can fire and every other device's unresolved probe can settle and write.
\* ------------------------------------------------------------------------
C10_TimersIndependent ==
    \A a, b \in TimerIds :
        (a # b /\ timers[a].inflight > 0) =>
            /\ ENABLED Tick(b)
            /\ timers[b].inflight > 0 =>
                   \A o \in PollOutcomes : ENABLED TickSettled(b, o)

C10_Witness ==
    /\ IsPush
    /\ \E a \in TimerIds :
           /\ a # lastEvent.timer
           /\ timers[a].homepageUrl # timers[lastEvent.timer].homepageUrl
           /\ timers[a].inflight = MaxInFlight

\* ------------------------------------------------------------------------
\* C11 (as claimed): the period is 5000 when pollingInterval is absent or is
\* not a valid integer string, and otherwise the integer the string denotes,
\* also when that is 0 or negative.
\* ------------------------------------------------------------------------
RECURSIVE PowerOfTen(_)
PowerOfTen(n) == IF n = 0 THEN 1 ELSE 10 * PowerOfTen(n - 1)

RECURSIVE PositionalSum(_, _)
PositionalSum(ds, k) ==
    IF k > Len(ds) THEN 0
    ELSE DigitValue(ds[k]) * PowerOfTen(Len(ds) - k) + PositionalSum(ds, k + 1)

Unsigned(cs) == IF cs # <<>> /\ cs[1] \in {"+", "-"} THEN Tail(cs) ELSE cs
Signed(cs, n) == IF cs # <<>> /\ cs[1] = "-" THEN 0 - n ELSE n

\* an optional sign and then digits, nothing else
ValidIntegerString(cs) ==
    /\ Unsigned(cs) # <<>>
    /\ \A k \in DOMAIN Unsigned(cs) : IsDigit(Unsigned(cs)[k])

C11_DefaultUnlessValidInteger ==
    intervalResult.done =>
        intervalResult.value =
            IF ~intervalArg.present \/ ~ValidIntegerString(intervalArg.chars)
            THEN 5000
            ELSE Signed(intervalArg.chars,
                        PositionalSum(Unsigned(intervalArg.chars), 1))

\* C11 (amended): the period is 5000 when pollingInterval is absent or does
\* not begin, after any leading spaces, with an optional sign and a digit;
\* otherwise it is the integer denoted by that sign and the digits that
\* follow it up to the first other character, also when that is 0 or
\* negative.
LeadingSpaces(cs) ==
    Cardinality({k \in DOMAIN cs : \A j \in 1..k : cs[j] = " "})
DigitRun(cs) ==
    Cardinality({k \in DOMAIN cs : \A j \in 1..k : IsDigit(cs[j])})
IntegerPrefix(cs) ==
    LET t == Drop(cs, LeadingSpaces(cs))
        n == DigitRun(Unsigned(t))
    IN  [found |-> n > 0,
         value |-> Signed(t, PositionalSum(SubSeq(Unsigned(t), 1, n), 1))]

C11_DefaultUnlessIntegerPrefix ==
    intervalResult.done =>
        intervalResult.value =
            IF ~intervalArg.present \/ ~IntegerPrefix(intervalArg.chars).found
            THEN 5000
            ELSE IntegerPrefix(intervalArg.chars).value

C11_Witness ==
    /\ intervalResult.done
    /\ intervalArg = IntervalString(<<" ", "-", "5">>)
    /\ intervalResult.value = 0 - 5

\* ------------------------------------------------------------------------
\* C12: the URL parseUrl returns has scheme https when the input begins with
\* "https://" in any letter case, and scheme http for every other input.
\* ------------------------------------------------------------------------
BeginsIgnoringCase(cs, p) ==
    /\ Len(cs) >= Len(p)
    /\ \A k \in DOMAIN p : cs[k] = p[k] \/ Lower(cs[k]) = p[k]

C12_SchemeDefaultsToHttp ==
    (urlResult.done /\ ~urlResult.failed) =>
        urlResult.protocol =
            IF BeginsIgnoringCase(urlArg, <<"h", "t", "t", "p", "s", ":", "/", "/">>)
            THEN <<"h", "t", "t", "p", "s", ":">>
            ELSE <<"h", "t", "t", "p", ":">>

C12_Witness ==
    /\ urlResult.done
    /\ ~urlResult.failed
    /\ BeginsIgnoringCase(urlArg, <<"h", "t", "t", "p", "s", ":", "/", "/">>)
    /\ ~StartsWith(urlArg, <<"h", "t", "t", "p", "s", ":", "/", "/">>)
    /\ urlResult.protocol = <<"h", "t", "t", "p", "s", ":">>

\* ------------------------------------------------------------------------
\* C13: the URL parseUrl returns has port 80 (http) or 443 (https) when the
\* input names no port, and the port of the input when it names one.
\* ------------------------------------------------------------------------
\* the digits the input puts after the colon of its authority
ExplicitPort(cs) ==
    LET t == TrimEnd(cs)
        r == IF BeginsIgnoringCase(t, <<"h", "t", "t", "p", "s", ":", "/", "/">>) THEN Drop(t, 8)
             ELSE IF BeginsIgnoringCase(t, <<"h", "t", "t", "p", ":", "/", "/">>) THEN Drop(t, 7)
             ELSE t
        authority == SubSeq(r, 1, FirstOf(r, {"/"}) - 1)
    IN  Drop(authority, FirstOf(authority, {":"}))

C13_PortDefaultsByScheme ==
    (urlResult.done /\ ~urlResult.failed) =>
        urlResult.port =
            IF ExplicitPort(urlArg) # <<>> THEN ExplicitPort(urlArg)
            ELSE IF urlResult.protocol = <<"h", "t", "t", "p", "s", ":">>
            THEN <<"4", "4", "3">>
            ELSE <<"8", "0">>

\* ------------------------------------------------------------------------
\* C14: the status of a device is always the classification of the probe
\* of that device that was fulfilled last, whichever tick started it and
\* however many other probes of the device are unresolved.
\* ------------------------------------------------------------------------
C14_LastResolvedWins ==
    [][\A h \in DOMAIN status :
          status'[h] =
              IF /\ lastEvent'.op = "tickSettled"
                 /\ lastEvent'.settled.state = "fulfilled"
                 /\ lastEvent'.acc = h
              THEN StatusValue(lastEvent'.settled.value)
              ELSE status[h]]_vars

\* a probe is fulfilled and writes while another probe of the same timer,
\* started before or after it, is unresolved
C14_Witness ==
    /\ lastEvent.op = "tickSettled"
    /\ lastEvent.settled = Fulfilled(FALSE)
    /\ timers[lastEvent.timer].inflight = MaxInFlight - 1
    /\ status[lastEvent.acc] = NOT_CONNECTED

\* ------------------------------------------------------------------------
\* C15: a tick, a probe settlement or an on-demand read changes the status
\* of no other accessory than its own, and registers, unregisters, creates
\* or restores no accessory.
\* ------------------------------------------------------------------------
C15_PollingTouchesOnlyOwnStatus ==
    [][lastEvent'.op \in {"tick", "tickSettled", "onGet", "onGetSettled"} =>
          /\ registered' = registered
          /\ hostCalls' = hostCalls
          /\ accessories' = accessories
          /\ objects' = objects
          /\ \A h \in DOMAIN status :
                 h # lastEvent'.acc => status'[h] = status[h]]_vars

C15_Witness ==
    /\ IsPush
    /\ lastEvent.out = NOT_CONNECTED
    /\ \E h \in Handles : h # lastEvent.acc /\ status[h] = CONNECTED

\* ------------------------------------------------------------------------
\* C16: for every configured device the pass sets the four information
\* characteristics of the device's accessory to the configured values, the
\* defaults standing in for absent fields, whatever the accessory carried.
\* ------------------------------------------------------------------------
ExpectedInfo(r) ==
    [manufacturer |-> IF r.manufacturer = Absent THEN "Default-Manufacturer"
                      ELSE r.manufacturer,
     model |-> IF r.model = Absent THEN "Default-Model" ELSE r.model,
     serial |-> IF r.serial = Absent THEN "Default-Serial" ELSE r.serial,
     firmwareRevision |-> IF r.firmwareRevision = Absent THEN "1.0.0"
                          ELSE r.firmwareRevision]

LastWriteTo(h) ==
    CHOOSE k \in DOMAIN infoWrites :
        /\ infoWrites[k].acc = h
        /\ \A j \in DOMAIN infoWrites : infoWrites[j].acc = h => j <= k

C16_InformationOverwritten ==
    launched =>
        /\ Len(infoWrites) = Len(routers)
        /\ \A k \in DOMAIN routers :
               /\ infoWrites[k].info = ExpectedInfo(routers[k])
               /\ infoWrites[k].acc = timers[k].acc
               /\ objects[infoWrites[k].acc].UUID = UuidOf(routers[k].homepageUrl)
               /\ LastWriteTo(infoWrites[k].acc) = k
                      => objects[infoWrites[k].acc].info = ExpectedInfo(routers[k])

\* a restored accessory now carries a configured value and a default
C16_Witness ==
    /\ launched
    /\ \E k \in DOMAIN routers :
           /\ timers[k].acc \in Range(accessories)
           /\ routers[k].manufacturer # Absent
           /\ routers[k].model = Absent
           /\ objects[timers[k].acc].info.manufacturer = routers[k].manufacturer
           /\ objects[timers[k].acc].info.model = "Default-Model"

\* ------------------------------------------------------------------------
\* C17: the accessories the pass adds are registered in the order of their
\* devices in the configured list.
\* ------------------------------------------------------------------------
RegisterPosition(h) ==
    CHOOSE p \in CallsOf("register") : h \in Range(hostCalls[p].accessories)

C17_RegisteredInConfigOrder ==
    launched =>
        /\ Len(timers) = Len(routers)
        /\ \A k \in DOMAIN routers :
               objects[timers[k].acc].UUID = UuidOf(routers[k].homepageUrl)
        /\ \A a, b \in DOMAIN routers :
               (/\ a < b
                /\ timers[a].acc \in HandlesIn("register")
                /\ timers[b].acc \in HandlesIn("register"))
                   => RegisterPosition(timers[a].acc) < RegisterPosition(timers[b].acc)

C17_Witness ==
    /\ launched
    /\ \E a, b \in DOMAIN routers :
           /\ a < b
           /\ routers[a].homepageUrl # routers[b].homepageUrl
           /\ timers[a].acc \in HandlesIn("register")
           /\ timers[b].acc \in HandlesIn("register")

\* ------------------------------------------------------------------------
\* C18: no interval callback runs before the pass has completed: when
\* discoverDevices returns no probe has been started and no status written,
\* and every tick and every settlement finds the registrations and
\* unregistrations of the pass done, whatever the polling interval.
\* ------------------------------------------------------------------------
C18_NoTickBeforePassCompletes ==
    /\ [](lastEvent.op \in {"none", "configureAccessory", "discoverDevices"} =>
             /\ \A i \in TimerIds : timers[i].inflight = 0
             /\ \A h \in DOMAIN status : status[h] = UNKNOWN)
    /\ [](~launched => timers = <<>>)
    /\ [][lastEvent'.op \in {"tick", "tickSettled"} =>
             /\ launched
             /\ hostCalls' = hostCalls
             /\ registered' = registered]_vars

\* a device polled with interval 0 or less has written its status, after a
\* pass that registered and unregistered accessories
C18_Witness ==
    /\ IsPush
    /\ timers[lastEvent.timer].interval <= 0
    /\ CallsOf("register") # {}
    /\ CallsOf("unregister") # {}

\* ------------------------------------------------------------------------
\* C19: this.accessories grows only by configureAccessory; discoverDevices
\* leaves it as it is, so after the pass it holds every unregistered
\* accessory and none of the registered new ones.
\* ------------------------------------------------------------------------
C19_KnownListOnlyGrowsByRestore ==
    /\ [](launched =>
             /\ HandlesIn("unregister") \subseteq Range(accessories)
             /\ HandlesIn("register") \cap Range(accessories) = {})
    /\ [][accessories' # accessories =>
             /\ lastEvent'.op = "configureAccessory"
             /\ accessories' = Append(accessories, lastEvent'.acc)]_vars

C19_Witness ==
    /\ lastEvent.op = "discoverDevices"
    /\ HandlesIn("unregister") # {}
    /\ HandlesIn("register") # {}
    /\ Len(accessories) = MaxCached

====
